---- MODULE Spec2Model ----
(***************************************************************************)
(* The special-transaction core of the ledger node:                        *)
(*   AddReferee::doApply      (src/ripple/app/transactors/AddReferee.cpp)   *)
(*   Change::applyAmendment, applyFee, applyDividend, getPower,            *)
(*   dividend_account, retrieveAccount, pair_less                          *)
(*                            (src/ripple/app/transactors/Change.cpp)      *)
(* The ledger is the state; every transaction is one atomic action.        *)
(***************************************************************************)
EXTENDS Integers, Sequences, FiniteSets, TLC

(***************************************************************************)
(* uint64_t arithmetic.  A 64-bit unsigned value is a tuple of NumLimbs    *)
(* limbs in base LimbBase = 2^15, least significant limb first; the top    *)
(* limb holds bits 60..63 only.  Exact (unwrapped) intermediate results    *)
(* are limb sequences of any length, so that wrap-around modulo 2^64 is    *)
(* computed, and can be observed, exactly as the machine produces it.      *)
(***************************************************************************)
LimbBase == 32768
NumLimbs == 5
TopLimbMod == 16

Limb(x, i) == IF i <= Len(x) THEN x[i] ELSE 0

MaxOf(a, b) == IF a >= b THEN a ELSE b

\* The uint64_t holding the small natural n (n < 2^31).
U64(n) == << n % LimbBase, (n \div LimbBase) % LimbBase, n \div (LimbBase * LimbBase), 0, 0 >>

Zero64 == U64(0)

\* 2^64 - 1
Max64 == << LimbBase - 1, LimbBase - 1, LimbBase - 1, LimbBase - 1, TopLimbMod - 1 >>

\* The value fits a non-negative 31-bit integer.
IsSmall(x) == \A i \in 3..Len(x) : IF i = 3 THEN x[i] <= 1 ELSE x[i] = 0

ToNat(x) == Limb(x, 1) + LimbBase * Limb(x, 2) + LimbBase * LimbBase * Limb(x, 3)

RECURSIVE BigAddFrom(_, _, _, _, _)
BigAddFrom(x, y, i, n, carry) ==
    IF i > n THEN << carry >>
    ELSE LET s == Limb(x, i) + Limb(y, i) + carry
         IN  << s % LimbBase >> \o BigAddFrom(x, y, i + 1, n, s \div LimbBase)

\* Exact sum.
BigAdd(x, y) == BigAddFrom(x, y, 1, MaxOf(Len(x), Len(y)), 0)

RECURSIVE BigSubFrom(_, _, _, _, _)
BigSubFrom(x, y, i, n, borrow) ==
    IF i > n THEN << >>
    ELSE LET d == Limb(x, i) - Limb(y, i) - borrow
         IN  IF d < 0
             THEN << d + LimbBase >> \o BigSubFrom(x, y, i + 1, n, 1)
             ELSE << d >> \o BigSubFrom(x, y, i + 1, n, 0)

\* x - y modulo LimbBase^n, n the longer length (exact when x >= y).
BigSub(x, y) == BigSubFrom(x, y, 1, MaxOf(Len(x), Len(y)), 0)

RECURSIVE BigMulSmallFrom(_, _, _, _)
BigMulSmallFrom(x, k, i, carry) ==
    IF i > Len(x) THEN << carry >>
    ELSE LET p == x[i] * k + carry
         IN  << p % LimbBase >> \o BigMulSmallFrom(x, k, i + 1, p \div LimbBase)

\* Exact product with one limb k < LimbBase.
BigMulSmall(x, k) == BigMulSmallFrom(x, k, 1, 0)

RECURSIVE BigMulFrom(_, _, _)
BigMulFrom(x, y, j) ==
    IF j > Len(y) THEN << 0 >>
    ELSE IF y[j] = 0 THEN << 0 >> \o BigMulFrom(x, y, j + 1)
    ELSE BigAdd(BigMulSmall(x, y[j]), << 0 >> \o BigMulFrom(x, y, j + 1))

\* Exact product.
BigMul(x, y) == BigMulFrom(x, y, 1)

RECURSIVE BigCmpFrom(_, _, _)
BigCmpFrom(x, y, i) ==
    IF i = 0 THEN 0
    ELSE IF Limb(x, i) < Limb(y, i) THEN -1
    ELSE IF Limb(x, i) > Limb(y, i) THEN 1
    ELSE BigCmpFrom(x, y, i - 1)

\* -1, 0, 1 as x <, =, > y.
BigCmp(x, y) == BigCmpFrom(x, y, MaxOf(Len(x), Len(y)))

RECURSIVE BigTrim(_)
BigTrim(x) == IF Len(x) > 1 /\ x[Len(x)] = 0 THEN BigTrim(SubSeq(x, 1, Len(x) - 1)) ELSE x

\* The exact value does not fit 64 bits.
Exceeds64(x) == Limb(x, NumLimbs) >= TopLimbMod \/ \E i \in (NumLimbs + 1)..Len(x) : x[i] # 0

\* Reduction modulo 2^64.
Wrap64(x) == [i \in 1..NumLimbs |-> IF i = NumLimbs THEN Limb(x, i) % TopLimbMod ELSE Limb(x, i)]

RECURSIVE QuotDigit(_, _, _)
\* The largest t <= guess with t*b <= rem.
QuotDigit(rem, b, guess) ==
    IF BigCmp(BigMulSmall(b, guess), rem) <= 0 THEN guess ELSE QuotDigit(rem, b, guess - 1)

\* One quotient limb, rem < b*LimbBase, the top limb of b at least LimbBase/2:
\* the quotient of the leading limbs exceeds the true limb by at most 2.
QuotLimb(rem, b) ==
    LET n     == Len(b)
        top   == Limb(rem, n + 1) * LimbBase + Limb(rem, n)
        guess == top \div b[n]
    IN  QuotDigit(rem, b, IF guess >= LimbBase THEN LimbBase - 1 ELSE guess)

RECURSIVE BigDivFrom(_, _, _, _)
\* Schoolbook long division, most significant limb first; rem < b on entry.
BigDivFrom(a, b, i, rem) ==
    IF i = 0 THEN << >>
    ELSE LET r  == BigTrim(<< a[i] >> \o rem)
             t  == IF BigCmp(r, b) < 0 THEN 0 ELSE QuotLimb(r, b)
             r2 == IF t = 0 THEN r ELSE BigTrim(BigSub(r, BigMulSmall(b, t)))
         IN  BigDivFrom(a, b, i - 1, r2) \o << t >>

\* floor(a / b), b # 0.  Both are first scaled by the same factor, which
\* brings the top limb of b to LimbBase/2 or more and leaves the quotient.
BigDiv(a, b) ==
    IF IsSmall(a) /\ IsSmall(b) THEN U64(ToNat(a) \div ToNat(b))
    ELSE LET bt == BigTrim(b)
             f  == LimbBase \div (bt[Len(bt)] + 1)
             fa == BigTrim(BigMulSmall(a, f))
         IN  BigDivFrom(fa, BigTrim(BigMulSmall(bt, f)), Len(fa), << 0 >>)


(***************************************************************************)
(* The ledger.                                                             *)
(* Account IDs are naturals: 0 is the zero account ID, 1..NumAccounts are  *)
(* the IDs that have an account root in the ledger, NumAccounts + 1 is an  *)
(* ID with no account root.                                                *)
(***************************************************************************)
NumAccounts == 3
NumAmendments == 2
MaxDividendLedger == 1
\* The dividend transactions of one behaviour: each multiplies the balances,
\* so the behaviours are cut after this many.
MaxDividends == 1

ACCOUNT_ZERO == 0
Accounts == 1..NumAccounts
Addresses == 0..(NumAccounts + 1)
AmendmentIds == 1..NumAmendments

VARIABLES
    referee,          \* sfReferee of each account root (ACCOUNT_ZERO: not set)
    references,       \* sfReferences of each account root, in insertion order
    balance,          \* sfBalance of each account root
    balanceVBC,       \* sfBalanceVBC of each account root
    amendmentObject,  \* the ltAMENDMENTS entry
    feeObject,        \* the ltFEE_SETTINGS entry
    dividendObject,   \* the ltDIVIDEND entry
    enableCalls,      \* calls of AmendmentTable::enable, in order
    blockedCalls,     \* amendments for which setAmendmentBlocked was called, in order
    txnType,          \* the kind of the last transaction applied
    result,           \* the TER the last transaction returned
    lastDividend,     \* the locals of the last applyDividend run
    dividends         \* the number of dividend transactions applied so far

ledgerVars == << referee, references, balance, balanceVBC, amendmentObject, feeObject, dividendObject >>
vars == << referee, references, balance, balanceVBC, amendmentObject, feeObject, dividendObject, enableCalls, blockedCalls, txnType, result, lastDividend, dividends >>

Contains(list, id) == \E i \in 1..Len(list) : list[i] = id

(***************************************************************************)
(* AddReferee::doApply.  refereeID is the transaction's sfDestination      *)
(* (the referrer), referenceID the transaction's source account (the       *)
(* referred account).                                                      *)
(***************************************************************************)
\* Faulty variants of the chain of checks, against which the properties of
\* doApply are tested.
\* - without the test of sfReferee at AddReferee.cpp:79:
AddRefereeResultNoRefereeTest(refereeID, referenceID) ==
    IF refereeID = ACCOUNT_ZERO THEN "temDST_NEEDED"
    ELSE IF referenceID = refereeID THEN "temREDUNDANT"
    ELSE IF refereeID \notin Accounts THEN "tecNO_DST"
    ELSE IF referenceID \notin Accounts THEN "terNO_ACCOUNT"
    ELSE IF Contains(references[refereeID], referenceID) THEN "tefREFERENCE_EXIST"
    ELSE "tesSUCCESS"

\* - with the test of sfReferee made first:
AddRefereeResultRefereeTestFirst(refereeID, referenceID) ==
    IF referenceID \in Accounts /\ referee[referenceID] # ACCOUNT_ZERO THEN "tefREFEREE_EXIST"
    ELSE IF refereeID = ACCOUNT_ZERO THEN "temDST_NEEDED"
    ELSE IF referenceID = refereeID THEN "temREDUNDANT"
    ELSE IF refereeID \notin Accounts THEN "tecNO_DST"
    ELSE IF referenceID \notin Accounts THEN "terNO_ACCOUNT"
    ELSE IF Contains(references[refereeID], referenceID) THEN "tefREFERENCE_EXIST"
    ELSE "tesSUCCESS"

\* - with the two account lookups made before the test for a self-referral:
AddRefereeResultLookupFirst(refereeID, referenceID) ==
    IF refereeID = ACCOUNT_ZERO THEN "temDST_NEEDED"
    ELSE IF refereeID \notin Accounts THEN "tecNO_DST"
    ELSE IF referenceID \notin Accounts THEN "terNO_ACCOUNT"
    ELSE IF referenceID = refereeID THEN "temREDUNDANT"
    ELSE IF referee[referenceID] # ACCOUNT_ZERO THEN "tefREFEREE_EXIST"
    ELSE IF Contains(references[refereeID], referenceID) THEN "tefREFERENCE_EXIST"
    ELSE "tesSUCCESS"

\* The TER doApply returns for (refereeID, referenceID) on the current ledger.
AddRefereeResult(refereeID, referenceID) ==
    IF refereeID = ACCOUNT_ZERO THEN "temDST_NEEDED"
    ELSE IF referenceID = refereeID THEN "temREDUNDANT"
    ELSE IF refereeID \notin Accounts THEN "tecNO_DST"
    ELSE IF referenceID \notin Accounts THEN "terNO_ACCOUNT"
    ELSE IF referee[referenceID] # ACCOUNT_ZERO THEN "tefREFEREE_EXIST"
    ELSE IF Contains(references[refereeID], referenceID) THEN "tefREFERENCE_EXIST"
    ELSE "tesSUCCESS"

\* A faulty variant of doApply that extends sfReferences and leaves sfReferee
\* of the referred account as it is.
AddRefereeKeepsReferee(refereeID, referenceID) ==
    /\ txnType' = "ttADDREFEREE"
    /\ result' = AddRefereeResult(refereeID, referenceID)
    /\ IF result' = "tesSUCCESS"
       THEN references' = [references EXCEPT ![refereeID] = Append(@, referenceID)]
       ELSE UNCHANGED references
    /\ UNCHANGED << referee, balance, balanceVBC, amendmentObject, feeObject, dividendObject, enableCalls, blockedCalls, lastDividend, dividends >>

\* A faulty variant of doApply that stores the new reference alone instead of
\* the array it was pushed onto.
AddRefereeStoresOne(refereeID, referenceID) ==
    /\ txnType' = "ttADDREFEREE"
    /\ result' = AddRefereeResult(refereeID, referenceID)
    /\ IF result' = "tesSUCCESS"
       THEN /\ referee' = [referee EXCEPT ![referenceID] = refereeID]
            /\ references' = [references EXCEPT ![refereeID] = << referenceID >>]
       ELSE UNCHANGED << referee, references >>
    /\ UNCHANGED << balance, balanceVBC, amendmentObject, feeObject, dividendObject, enableCalls, blockedCalls, lastDividend, dividends >>

\* A faulty variant of doApply that extends sfReferences before the test of
\* sfReferee, so that a transaction failing there leaves a partial write.
AddRefereePartialWrite(refereeID, referenceID) ==
    /\ txnType' = "ttADDREFEREE"
    /\ result' = AddRefereeResult(refereeID, referenceID)
    /\ IF result' = "tesSUCCESS"
       THEN /\ referee' = [referee EXCEPT ![referenceID] = refereeID]
            /\ references' = [references EXCEPT ![refereeID] = Append(@, referenceID)]
       ELSE IF result' = "tefREFEREE_EXIST"
       THEN /\ references' = [references EXCEPT ![refereeID] = Append(@, referenceID)]
            /\ UNCHANGED referee
       ELSE UNCHANGED << referee, references >>
    /\ UNCHANGED << balance, balanceVBC, amendmentObject, feeObject, dividendObject, enableCalls, blockedCalls, lastDividend, dividends >>

AddReferee(refereeID, referenceID) ==
    /\ txnType' = "ttADDREFEREE"
    /\ result' = AddRefereeResult(refereeID, referenceID)
    /\ IF result' = "tesSUCCESS"
       THEN /\ referee' = [referee EXCEPT ![referenceID] = refereeID]
            /\ references' = [references EXCEPT ![refereeID] = Append(@, referenceID)]
       ELSE UNCHANGED << referee, references >>
    /\ UNCHANGED << balance, balanceVBC, amendmentObject, feeObject, dividendObject, enableCalls, blockedCalls, lastDividend, dividends >>

(***************************************************************************)
(* Change::applyAmendment.                                                 *)
(***************************************************************************)
\* The amendments this node's AmendmentTable answers isSupported for.
SupportedAmendments == { 1 }

\* sfAmendments of the fetched or newly created ltAMENDMENTS entry.
CurrentAmendments == IF amendmentObject.exists THEN amendmentObject.Amendments ELSE << >>

\* A faulty variant without the std::find of Change.cpp:127.
ApplyAmendmentResultNoFind(amendment) == "tesSUCCESS"

ApplyAmendmentResult(amendment) ==
    IF Contains(CurrentAmendments, amendment) THEN "tefALREADY" ELSE "tesSUCCESS"

\* A faulty variant that stores the new amendment alone instead of the
\* vector it was pushed onto.
ApplyAmendmentStoresOne(amendment) ==
    /\ txnType' = "ttAMENDMENT"
    /\ result' = ApplyAmendmentResult(amendment)
    /\ IF result' = "tesSUCCESS"
       THEN /\ amendmentObject' = [exists |-> TRUE, Amendments |-> << amendment >>]
            /\ enableCalls' = Append(enableCalls, amendment)
            /\ blockedCalls' = IF amendment \in SupportedAmendments THEN blockedCalls ELSE Append(blockedCalls, amendment)
       ELSE UNCHANGED << amendmentObject, enableCalls, blockedCalls >>
    /\ UNCHANGED << referee, references, balance, balanceVBC, feeObject, dividendObject, lastDividend, dividends >>

ApplyAmendment(amendment) ==
    /\ txnType' = "ttAMENDMENT"
    /\ result' = ApplyAmendmentResult(amendment)
    /\ IF result' = "tesSUCCESS"
       THEN /\ amendmentObject' = [exists |-> TRUE, Amendments |-> Append(CurrentAmendments, amendment)]
            /\ enableCalls' = Append(enableCalls, amendment)
            /\ blockedCalls' = IF amendment \in SupportedAmendments THEN blockedCalls ELSE Append(blockedCalls, amendment)
       ELSE UNCHANGED << amendmentObject, enableCalls, blockedCalls >>
    /\ UNCHANGED << referee, references, balance, balanceVBC, feeObject, dividendObject, lastDividend, dividends >>

(***************************************************************************)
(* Change::applyFee.                                                       *)
(***************************************************************************)
NoFee == [exists |-> FALSE, BaseFee |-> 0, ReferenceFeeUnits |-> 0, ReserveBase |-> 0, ReserveIncrement |-> 0]

\* The fee transactions applied: sfBaseFee, sfReferenceFeeUnits, sfReserveBase, sfReserveIncrement.
FeeInputs ==
    { [BaseFee |-> 10, ReferenceFeeUnits |-> 10, ReserveBase |-> 20000000, ReserveIncrement |-> 5000000],
      [BaseFee |-> 12, ReferenceFeeUnits |-> 10, ReserveBase |-> 50000000, ReserveIncrement |-> 12500000] }

\* A faulty variant that sets the fields only when it creates the entry and
\* updates sfBaseFee alone on an entry that exists.
ApplyFeeKeepsFields(txn) ==
    /\ txnType' = "ttFEE"
    /\ result' = "tesSUCCESS"
    /\ feeObject' = IF feeObject.exists
                    THEN [feeObject EXCEPT !.BaseFee = txn.BaseFee]
                    ELSE [exists |-> TRUE, BaseFee |-> txn.BaseFee, ReferenceFeeUnits |-> txn.ReferenceFeeUnits,
                          ReserveBase |-> txn.ReserveBase, ReserveIncrement |-> txn.ReserveIncrement]
    /\ UNCHANGED << referee, references, balance, balanceVBC, amendmentObject, dividendObject, enableCalls, blockedCalls, lastDividend, dividends >>

ApplyFee(txn) ==
    /\ txnType' = "ttFEE"
    /\ result' = "tesSUCCESS"
    /\ feeObject' = [exists |-> TRUE, BaseFee |-> txn.BaseFee, ReferenceFeeUnits |-> txn.ReferenceFeeUnits,
                     ReserveBase |-> txn.ReserveBase, ReserveIncrement |-> txn.ReserveIncrement]
    /\ UNCHANGED << referee, references, balance, balanceVBC, amendmentObject, dividendObject, enableCalls, blockedCalls, lastDividend, dividends >>


(***************************************************************************)
(* Change::applyDividend and its helpers.                                  *)
(***************************************************************************)
\* The two network constants applyDividend reads (Change.cpp:312 and :317).
\* Their definitions are in a header outside these files; SYSTEM_CURRENCY_PARTS
\* is the number of drops in one coin, and the increase rate is taken as 3.
SYSTEM_CURRENCY_PARTS == 1000000
VRP_INCREASE_RATE == 3

Add64(x, y) == Wrap64(BigAdd(x, y))
Mul64(x, y) == Wrap64(BigMul(x, y))
Sub64(x, y) == Wrap64(BigSub(x, y))
Div64(x, y) == Wrap64(BigDiv(x, y))
Less64(x, y) == BigCmp(x, y) < 0
Max64Of(x, y) == IF Less64(x, y) THEN y ELSE x

\* Change::retrieveAccount over visitStateItems: the account roots in the
\* ledger's index order, and those among them with a zero sfReferee.
RetrievedAccounts == [i \in 1..NumAccounts |-> i]

\* A faulty variant of retrieveAccount that pushes every account to roots.
RetrievedRootsAll == RetrievedAccounts

RetrievedRoots == SelectSeq(RetrievedAccounts, LAMBDA a : referee[a] = ACCOUNT_ZERO)

\* The sequences that list every account once.
Orders == { s \in [1..NumAccounts -> Accounts] : \A i, j \in 1..NumAccounts : s[i] = s[j] => i = j }

\* Change::pair_less
pair_less(x, y) == Less64(balanceVBC[x], balanceVBC[y])

\* What std::sort(accounts.begin(), accounts.end(), pair_less()) may leave:
\* std::sort is not stable, so any order in which no element is less than
\* its predecessor.
SortedAccounts == { s \in Orders : \A i \in 1..(NumAccounts - 1) : ~pair_less(s[i + 1], s[i]) }

\* hash_map::operator[] of the power table: a missing key reads as (0, 0).
PowerOf(p, a) == IF a \in DOMAIN p.tab THEN p.tab[a] ELSE << Zero64, Zero64 >>

\* loops lists the accounts whose loop over references was entered, in order.
NoPower == [tab |-> << >>, overflow |-> FALSE, diverged |-> FALSE, loops |-> << >>]

RECURSIVE getPower(_, _, _)
RECURSIVE getPowerLoop(_, _, _, _, _, _)
RECURSIVE getPowerLoopChildrenOnly(_, _, _, _, _, _)
\* Change::getPower(r, p): the power table after the call.  path holds the
\* accounts whose call is still on the stack: entering one of them again
\* before it is memoised recurses without end (diverged).
getPower(r, p, path) ==
    IF p.diverged \/ r \in DOMAIN p.tab THEN p
    ELSE IF r \notin Accounts THEN p
    ELSE IF references[r] = << >> THEN [p EXCEPT !.tab = (r :> << Zero64, Zero64 >>) @@ @]
    ELSE IF r \in path THEN [p EXCEPT !.diverged = TRUE]
    ELSE getPowerLoop(r, [p EXCEPT !.loops = Append(@, r)], path \cup {r}, 1, Zero64, Zero64)

\* A faulty variant of the loop that adds the balance of each child and
\* leaves out the power of the child.
getPowerLoopChildrenOnly(r, p, path, i, sum, maxP) ==
    IF p.diverged THEN p
    ELSE IF i > Len(references[r]) THEN [p EXCEPT !.tab = (r :> << sum, maxP >>) @@ @]
    ELSE LET raChild == references[r][i]
         IN  IF raChild \notin Accounts THEN getPowerLoopChildrenOnly(r, p, path, i + 1, sum, maxP)
             ELSE LET p2 == getPower(raChild, p, path)
                      c  == balanceVBC[raChild]
                      m  == PowerOf(p2, raChild)[2]
                      s2 == BigAdd(sum, c)
                      p3 == [p2 EXCEPT !.overflow = @ \/ Exceeds64(s2)]
                  IN  getPowerLoopChildrenOnly(r, p3, path, i + 1, Wrap64(s2), Max64Of(Max64Of(m, c), maxP))

\* The loop over references at Change.cpp:251, from its i-th element on.
getPowerLoop(r, p, path, i, sum, maxP) ==
    IF p.diverged THEN p
    ELSE IF i > Len(references[r]) THEN [p EXCEPT !.tab = (r :> << sum, maxP >>) @@ @]
    ELSE LET raChild == references[r][i]
         IN  IF raChild \notin Accounts THEN getPowerLoop(r, p, path, i + 1, sum, maxP)
             ELSE LET p2 == getPower(raChild, p, path)
                      v  == PowerOf(p2, raChild)[1]
                      c  == balanceVBC[raChild]
                      m  == PowerOf(p2, raChild)[2]
                      vc == BigAdd(v, c)
                      s2 == BigAdd(sum, Wrap64(vc))
                      p3 == [p2 EXCEPT !.overflow = @ \/ Exceeds64(vc) \/ Exceeds64(s2)]
                  IN  getPowerLoop(r, p3, path, i + 1, Wrap64(s2), Max64Of(Max64Of(m, c), maxP))

RECURSIVE PowerFromRoots(_, _, _)
\* The loop over roots at Change.cpp:200.
PowerFromRoots(roots, i, p) ==
    IF i > Len(roots) THEN p ELSE PowerFromRoots(roots, i + 1, getPower(roots[i], p, {}))

PowerTable == PowerFromRoots(RetrievedRoots, 1, NoPower)


(***************************************************************************)
(* The power metric of Change.cpp:206 and :212,                            *)
(*     power.first - power.second + pow(power.second, 1.0/3)               *)
(* The subtraction is uint64_t; the sum is formed in double and truncated  *)
(* to uint64_t when it is stored in the rank table.                        *)
(***************************************************************************)
\* 2^t as a limb sequence.
Pow2(t) == [i \in 1..((t \div 15) + 1) |-> IF i = (t \div 15) + 1 THEN 2 ^ (t % 15) ELSE 0]

Cube(k) == BigMul(U64(k), BigMul(U64(k), U64(k)))

RECURSIVE ICbrtFrom(_, _, _)
ICbrtFrom(x, k, bit) ==
    IF bit = 0 THEN k
    ELSE IF BigCmp(Cube(k + bit), x) <= 0 THEN ICbrtFrom(x, k + bit, bit \div 2)
    ELSE ICbrtFrom(x, k, bit \div 2)

RECURSIVE ICbrtNat(_, _, _)
\* The same search on a natural below 2^31, whose cube root is at most 1290.
ICbrtNat(n, k, bit) ==
    IF bit = 0 THEN k
    ELSE IF k + bit <= 1290 /\ (k + bit) * (k + bit) * (k + bit) <= n THEN ICbrtNat(n, k + bit, bit \div 2)
    ELSE ICbrtNat(n, k, bit \div 2)

\* floor of the cube root of a 64-bit value (below 2^22).
ICbrt(x) == IF IsSmall(x) THEN ICbrtNat(ToNat(x), 0, 1024) ELSE ICbrtFrom(x, 0, 2 ^ 21)

\* The spacing of the doubles at x: 1 below 2^53, then doubling with each bit.
DoubleSpacing(x) == 2 ^ Cardinality({ t \in 53..64 : BigCmp(x, Pow2(t)) >= 0 })

\* x rounded down to a multiple of g (g a power of two below LimbBase).
RoundDown(x, g) == [x EXCEPT ![1] = @ - (@ % g)]

\* Conversion of a double to uint64_t: truncation; a value of 2^64 or more
\* is out of range, which is undefined.
DoubleToU64(x) == IF Exceeds64(x) THEN { Zero64, Max64 } ELSE { Wrap64(x) }

\* x is a double: a multiple of the spacing of the doubles at x.
IsDouble(x) == x[1] % DoubleSpacing(x) = 0

\* The values the build can store for the metric.  With d = first - second
\* and k = floor(cbrt(second)):
\*  - d < 2^28 and second < 2^33: every rounding error is far smaller than
\*    the distance of cbrt(second) to the next integer, so the result is
\*    d + k; except that for a perfect cube k^3 (k >= 2) pow(k^3, 1.0/3)
\*    may fall just below k (1.0/3 is below one third), giving d + k - 1;
\*  - otherwise the conversion of d to double and the sum round to the
\*    doubles at that magnitude.  With g the spacing of the doubles just
\*    above d + k, the result is a double within one unit of d + k while
\*    g = 1, and within two spacings g of d + k otherwise; below a power
\*    of two these doubles lie on the finer grid g / 2.
PowerMetrics(pw) ==
    LET d == Sub64(pw[1], pw[2])
        k == ICbrt(pw[2])
        x == BigAdd(d, U64(k))
    IN  IF BigCmp(d, Pow2(28)) < 0 /\ BigCmp(pw[2], Pow2(33)) < 0
        THEN { Wrap64(x) } \cup (IF k >= 2 /\ BigCmp(Cube(k), pw[2]) = 0 THEN { Wrap64(BigSub(x, U64(1))) } ELSE {})
        ELSE LET g     == DoubleSpacing(BigAdd(x, U64(2)))
                 fine  == IF g = 1 THEN 1 ELSE g \div 2
                 reach == IF g = 1 THEN 1 ELSE 4
                 base  == RoundDown(x, fine)
                 down  == { BigSub(base, U64(j * fine)) : j \in { i \in 0..reach : BigCmp(base, U64(i * fine)) >= 0 } }
                 up    == { BigAdd(base, U64(j * fine)) : j \in 1..reach }
             IN  UNION { DoubleToU64(c) : c \in { v \in down \cup up : IsDouble(v) } }


(***************************************************************************)
(* The rank table of Change.cpp:204-215.                                   *)
(***************************************************************************)
\* A faulty variant that compares with >= and so separates equal balances.
NextRankSplitsTies(r, prevBalanceVBC, curBalanceVBC) == IF Less64(curBalanceVBC, prevBalanceVBC) THEN r ELSE r + 1

\* Change.cpp:210-211: the rank of the next account in sorted order.
NextRank(r, prevBalanceVBC, curBalanceVBC) == IF Less64(prevBalanceVBC, curBalanceVBC) THEN r + 1 ELSE r

\* The state of the loop: r, the table built so far (rank and metric of
\* each account), sum and sumPower.
FirstRank(sorted, power) ==
    [r |-> 1,
     rank |-> (sorted[1] :> 1),
     sum |-> 1,
     sumPower |-> PowerOf(power, sorted[1])[2],
     overflow |-> FALSE]

RECURSIVE RankLoop(_, _, _, _)
RankLoop(sorted, power, i, st) ==
    IF i > Len(sorted) THEN st
    ELSE LET r2 == NextRank(st.r, balanceVBC[sorted[i - 1]], balanceVBC[sorted[i]])
             sp == BigAdd(st.sumPower, PowerOf(power, sorted[i])[2])
         IN  RankLoop(sorted, power, i + 1,
                      [r |-> r2,
                       rank |-> (sorted[i] :> r2) @@ st.rank,
                       sum |-> st.sum + r2,
                       sumPower |-> Wrap64(sp),
                       overflow |-> st.overflow \/ Exceeds64(sp)])

RankTable(sorted, power) == RankLoop(sorted, power, 2, FirstRank(sorted, power))

\* The metric column of the rank table: one of the values the double
\* arithmetic can produce, for each account.
MetricTables(power) ==
    LET choices == [a \in Accounts |-> PowerMetrics(PowerOf(power, a))]
    IN  { m \in [Accounts -> UNION { choices[a] : a \in Accounts }] : \A a \in Accounts : m[a] \in choices[a] }

(***************************************************************************)
(* Change::dividend_account::operator().                                   *)
(***************************************************************************)
\* An integer division by zero is undefined: the process is stopped by the
\* trap (SIGFPE), or the division yields some value, one of these.
DivideByZero == { Zero64, Max64 }

\* Change.cpp:299-303 for the rank-table entry (rk, metric).  byZero is the
\* value a division by zero yields.
DividendShare(totalDividendVBC, rk, metric, totalPart, totalPower, byZero) ==
    LET totalDivVBCbyRank  == Div64(totalDividendVBC, U64(2))
        totalDivVBCbyPower == Sub64(totalDividendVBC, totalDivVBCbyRank)
        rankProduct        == BigMul(totalDivVBCbyRank, U64(rk))
        divVBCbyRank       == Div64(Wrap64(rankProduct), U64(totalPart))
        powerProduct       == BigMul(totalDivVBCbyPower, metric)
        divVBCbyPower      == IF totalPower = Zero64 THEN byZero ELSE Div64(Wrap64(powerProduct), totalPower)
        divVBC             == BigAdd(divVBCbyRank, divVBCbyPower)
    IN  [divVBCbyRank |-> divVBCbyRank,
         divVBCbyPower |-> divVBCbyPower,
         divVBC |-> Wrap64(divVBC),
         overflow |-> Exceeds64(rankProduct) \/ Exceeds64(powerProduct) \/ Exceeds64(divVBC)]

\* A faulty variant of the credit that tests divVBC > SYSTEM_CURRENCY_PARTS.
CreditAccountStrictThreshold(acc, a, divVBC) ==
    LET prevBalanceVBC == acc.balanceVBC[a]
        paid           == Less64(U64(SYSTEM_CURRENCY_PARTS), divVBC)
        newBalanceVBC  == BigAdd(prevBalanceVBC, divVBC)
        newTotalVBC    == BigAdd(acc.actualTotalDividendVBC, divVBC)
        prevBalance    == acc.balance[a]
        div            == BigMul(prevBalanceVBC, U64(VRP_INCREASE_RATE))
        newBalance     == BigAdd(prevBalance, Wrap64(div))
        newTotal       == BigAdd(acc.actualTotalDividend, Wrap64(div))
    IN  [balanceVBC |-> IF paid THEN [acc.balanceVBC EXCEPT ![a] = Wrap64(newBalanceVBC)] ELSE acc.balanceVBC,
         actualTotalDividendVBC |-> IF paid THEN Wrap64(newTotalVBC) ELSE acc.actualTotalDividendVBC,
         balance |-> [acc.balance EXCEPT ![a] = Wrap64(newBalance)],
         actualTotalDividend |-> Wrap64(newTotal),
         overflow |-> \/ acc.overflow
                      \/ (paid /\ (Exceeds64(newBalanceVBC) \/ Exceeds64(newTotalVBC)))
                      \/ Exceeds64(div) \/ Exceeds64(newBalance) \/ Exceeds64(newTotal)]

\* A faulty variant of the credit that reads sfBalanceVBC for the increase of
\* sfBalance after it has been credited.
CreditAccountFromNewBalance(acc, a, divVBC) ==
    LET prevBalanceVBC == acc.balanceVBC[a]
        paid           == ~Less64(divVBC, U64(SYSTEM_CURRENCY_PARTS))
        newBalanceVBC  == BigAdd(prevBalanceVBC, divVBC)
        newTotalVBC    == BigAdd(acc.actualTotalDividendVBC, divVBC)
        prevBalance    == acc.balance[a]
        div            == BigMul(IF paid THEN Wrap64(newBalanceVBC) ELSE prevBalanceVBC, U64(VRP_INCREASE_RATE))
        newBalance     == BigAdd(prevBalance, Wrap64(div))
        newTotal       == BigAdd(acc.actualTotalDividend, Wrap64(div))
    IN  [balanceVBC |-> IF paid THEN [acc.balanceVBC EXCEPT ![a] = Wrap64(newBalanceVBC)] ELSE acc.balanceVBC,
         actualTotalDividendVBC |-> IF paid THEN Wrap64(newTotalVBC) ELSE acc.actualTotalDividendVBC,
         balance |-> [acc.balance EXCEPT ![a] = Wrap64(newBalance)],
         actualTotalDividend |-> Wrap64(newTotal),
         overflow |-> \/ acc.overflow
                      \/ (paid /\ (Exceeds64(newBalanceVBC) \/ Exceeds64(newTotalVBC)))
                      \/ Exceeds64(div) \/ Exceeds64(newBalance) \/ Exceeds64(newTotal)]

\* Change.cpp:309-320: the credit of one account; acc holds the balances
\* and the two running totals.
CreditAccount(acc, a, divVBC) ==
    LET prevBalanceVBC == acc.balanceVBC[a]
        paid           == ~Less64(divVBC, U64(SYSTEM_CURRENCY_PARTS))
        newBalanceVBC  == BigAdd(prevBalanceVBC, divVBC)
        newTotalVBC    == BigAdd(acc.actualTotalDividendVBC, divVBC)
        prevBalance    == acc.balance[a]
        div            == BigMul(prevBalanceVBC, U64(VRP_INCREASE_RATE))
        newBalance     == BigAdd(prevBalance, Wrap64(div))
        newTotal       == BigAdd(acc.actualTotalDividend, Wrap64(div))
    IN  [balanceVBC |-> IF paid THEN [acc.balanceVBC EXCEPT ![a] = Wrap64(newBalanceVBC)] ELSE acc.balanceVBC,
         actualTotalDividendVBC |-> IF paid THEN Wrap64(newTotalVBC) ELSE acc.actualTotalDividendVBC,
         balance |-> [acc.balance EXCEPT ![a] = Wrap64(newBalance)],
         actualTotalDividend |-> Wrap64(newTotal),
         overflow |-> \/ acc.overflow
                      \/ (paid /\ (Exceeds64(newBalanceVBC) \/ Exceeds64(newTotalVBC)))
                      \/ Exceeds64(div) \/ Exceeds64(newBalance) \/ Exceeds64(newTotal)]

RECURSIVE ForEachRankFrom(_, _, _, _)
ForEachRankFrom(order, i, share, acc) ==
    IF i > Len(order) THEN acc
    ELSE ForEachRankFrom(order, i + 1, share, CreditAccount(acc, order[i], share[order[i]].divVBC))

\* A faulty variant of the loop that passes over the first entry the hash_map
\* yields.
ForEachRankSkipsFirst(order, i, share, acc) == ForEachRankFrom(order, i + 1, share, acc)

RECURSIVE ForEachRank(_, _, _, _)
\* std::for_each over the rank table at Change.cpp:218, in the order the
\* hash_map iterates.
ForEachRank(order, i, share, acc) ==
    IF i > Len(order) THEN acc
    ELSE ForEachRank(order, i + 1, share, CreditAccount(acc, order[i], share[order[i]].divVBC))

NoDividendObject == [exists |-> FALSE, DividendLedger |-> 0, DividendCoins |-> Zero64, DividendCoinsVBC |-> Zero64]

NoDividend ==
    [applied |-> FALSE, dividendCoinsVBC |-> Zero64,
     prevBalance |-> [a \in Accounts |-> Zero64], prevBalanceVBC |-> [a \in Accounts |-> Zero64],
     power |-> [a \in Accounts |-> << Zero64, Zero64 >>],
     rank |-> [a \in Accounts |-> 0], metric |-> [a \in Accounts |-> Zero64],
     totalPart |-> 0, totalPower |-> Zero64,
     divVBC |-> [a \in Accounts |-> Zero64],
     overflow |-> FALSE]

\* The rank tables the loop can build: one for each order std::sort may leave.
RankTables(power) == { RankTable(sorted, power) : sorted \in SortedAccounts }

\* A run in which the process dies inside applyDividend: nothing of the
\* transaction is kept.
Killed(signal) ==
    [signal |-> signal, balance |-> balance, balanceVBC |-> balanceVBC,
     actualTotalDividend |-> Zero64, actualTotalDividendVBC |-> Zero64, locals |-> lastDividend]

\* A faulty variant of the run that starts the two totals from the values of
\* the ltDIVIDEND entry instead of zero.
CompletedAccumulates(dividendCoinsVBC, power, st, metric, share, order) ==
    LET acc == ForEachRank(order, 1, share,
                   [balance |-> balance, balanceVBC |-> balanceVBC,
                    actualTotalDividend |-> dividendObject.DividendCoins,
                    actualTotalDividendVBC |-> dividendObject.DividendCoinsVBC,
                    overflow |-> FALSE])
    IN  [signal |-> "", balance |-> acc.balance, balanceVBC |-> acc.balanceVBC,
         actualTotalDividend |-> acc.actualTotalDividend,
         actualTotalDividendVBC |-> acc.actualTotalDividendVBC,
         locals |-> [applied |-> TRUE, dividendCoinsVBC |-> dividendCoinsVBC,
                     prevBalance |-> balance, prevBalanceVBC |-> balanceVBC,
                     power |-> [a \in Accounts |-> PowerOf(power, a)],
                     rank |-> st.rank, metric |-> metric,
                     totalPart |-> st.sum, totalPower |-> st.sumPower,
                     divVBC |-> [a \in Accounts |-> share[a].divVBC],
                     overflow |-> \/ power.overflow \/ st.overflow \/ acc.overflow
                                  \/ \E a \in Accounts : share[a].overflow]]

\* A run of Change.cpp:216-218 to its end, with the rank table st and metric,
\* byZero for a division by zero, and the hash_map iterating in order.
Completed(dividendCoinsVBC, power, st, metric, share, order) ==
    LET acc == ForEachRank(order, 1, share,
                   [balance |-> balance, balanceVBC |-> balanceVBC,
                    actualTotalDividend |-> Zero64, actualTotalDividendVBC |-> Zero64,
                    overflow |-> FALSE])
    IN  [signal |-> "", balance |-> acc.balance, balanceVBC |-> acc.balanceVBC,
         actualTotalDividend |-> acc.actualTotalDividend,
         actualTotalDividendVBC |-> acc.actualTotalDividendVBC,
         locals |-> [applied |-> TRUE, dividendCoinsVBC |-> dividendCoinsVBC,
                     prevBalance |-> balance, prevBalanceVBC |-> balanceVBC,
                     power |-> [a \in Accounts |-> PowerOf(power, a)],
                     rank |-> st.rank, metric |-> metric,
                     totalPart |-> st.sum, totalPower |-> st.sumPower,
                     divVBC |-> [a \in Accounts |-> share[a].divVBC],
                     overflow |-> \/ power.overflow \/ st.overflow \/ acc.overflow
                                  \/ \E a \in Accounts : share[a].overflow]]

Shares(dividendCoinsVBC, st, metric, byZero) ==
    [a \in Accounts |-> DividendShare(dividendCoinsVBC, st.rank[a], metric[a], st.sum, st.sumPower, byZero)]

\* Every run of applyDividend the build can produce on the current ledger.
DividendRuns(dividendCoinsVBC) ==
    LET power == PowerTable
    IN  IF power.diverged THEN { Killed("SIGSEGV") }
        ELSE UNION { IF st.sumPower = Zero64
                     THEN { Killed("SIGFPE") } \cup
                          UNION { LET share == Shares(dividendCoinsVBC, st, metric, byZero)
                                  IN  { Completed(dividendCoinsVBC, power, st, metric, share, order) : order \in Orders }
                                  : byZero \in DivideByZero }
                     ELSE LET share == Shares(dividendCoinsVBC, st, metric, Zero64)
                          IN  { Completed(dividendCoinsVBC, power, st, metric, share, order) : order \in Orders }
                     : st \in RankTables(power), metric \in MetricTables(power) }

\* Change.cpp:174-230.  sfDividendLedger of the transaction is written over
\* that of the entry without being compared with it.  The first conjunct is
\* the bound on the length of the behaviours, not a test of the code.
ApplyDividend(dividendLedger, dividendCoinsVBC) ==
    /\ dividends < MaxDividends
    /\ dividends' = dividends + 1
    /\ txnType' = "ttDIVIDEND"
    /\ \E run \in DividendRuns(dividendCoinsVBC) :
         /\ result' = (IF run.signal = "" THEN "tesSUCCESS" ELSE run.signal)
         /\ balance' = run.balance
         /\ balanceVBC' = run.balanceVBC
         /\ dividendObject' = IF run.signal = ""
                              THEN [exists |-> TRUE, DividendLedger |-> dividendLedger,
                                    DividendCoins |-> run.actualTotalDividend,
                                    DividendCoinsVBC |-> run.actualTotalDividendVBC]
                              ELSE dividendObject
         /\ lastDividend' = run.locals
    /\ UNCHANGED << referee, references, amendmentObject, feeObject, enableCalls, blockedCalls >>

(***************************************************************************)
(* Specifications.                                                         *)
(***************************************************************************)
\* sfBalanceVBC values of the account roots before the first transaction.
BalanceInputs == { 0, 100, 300 }

\* The assignments of these to the accounts, up to a renaming of the accounts:
\* applyDividend reads the accounts through std::sort and the hash_map
\* orders, which SortedAccounts and Orders take in every possible way.
BalanceAssignments == { b \in [Accounts -> BalanceInputs] : \A a \in 1..(NumAccounts - 1) : b[a] <= b[a + 1] }

\* sfDividendCoinsVBC values of the dividend transactions.
PoolInputs == { U64(10000000), Max64 }

InitLedger ==
    /\ referee = [a \in Accounts |-> ACCOUNT_ZERO]
    /\ references = [a \in Accounts |-> << >>]
    /\ balance = [a \in Accounts |-> U64(200000000)]
    /\ amendmentObject = [exists |-> FALSE, Amendments |-> << >>]
    /\ feeObject = NoFee
    /\ dividendObject = NoDividendObject
    /\ enableCalls = << >>
    /\ blockedCalls = << >>
    /\ txnType = "none"
    /\ result = "none"
    /\ lastDividend = NoDividend
    /\ dividends = 0

\* The four kinds of transaction on a ledger of accounts with distinct
\* balances.
Init ==
    /\ InitLedger
    /\ balanceVBC = [a \in Accounts |-> U64(100 * (a - 1))]

Next ==
    \/ \E refereeID \in Addresses, referenceID \in Addresses : AddReferee(refereeID, referenceID)
    \/ \E amendment \in AmendmentIds : ApplyAmendment(amendment)
    \/ \E txn \in FeeInputs : ApplyFee(txn)
    \/ \E dividendLedger \in 1..MaxDividendLedger : ApplyDividend(dividendLedger, U64(10000000))

Spec == Init /\ [][Next]_vars

\* Referrals among the existing accounts and dividends of every pool size,
\* from every assignment of balances.
InitDividend ==
    /\ InitLedger
    /\ \E b \in BalanceAssignments : balanceVBC = [a \in Accounts |-> U64(b[a])]

NextDividend ==
    \/ \E refereeID \in Accounts, referenceID \in Accounts : AddReferee(refereeID, referenceID)
    \/ \E dividendLedger \in 1..MaxDividendLedger, dividendCoinsVBC \in PoolInputs : ApplyDividend(dividendLedger, dividendCoinsVBC)

SpecDividend == InitDividend /\ [][NextDividend]_vars

\* The ltDIVIDEND entry an earlier dividend transaction, of ledger 5, left.
PriorDividendObject ==
    [exists |-> TRUE, DividendLedger |-> 5, DividendCoins |-> U64(600), DividendCoinsVBC |-> U64(4000000)]

\* Referrals and dividends on a ledger that holds the entry of an earlier
\* dividend.
InitRecord ==
    /\ referee = [a \in Accounts |-> ACCOUNT_ZERO]
    /\ references = [a \in Accounts |-> << >>]
    /\ balance = [a \in Accounts |-> U64(200000000)]
    /\ balanceVBC = [a \in Accounts |-> U64(100 * (a - 1))]
    /\ amendmentObject = [exists |-> FALSE, Amendments |-> << >>]
    /\ feeObject = NoFee
    /\ dividendObject = PriorDividendObject
    /\ enableCalls = << >>
    /\ blockedCalls = << >>
    /\ txnType = "none"
    /\ result = "none"
    /\ lastDividend = NoDividend
    /\ dividends = 0

SpecRecord == InitRecord /\ [][NextDividend]_vars

(***************************************************************************)
(* Properties of AddReferee::doApply.                                      *)
(***************************************************************************)
\* C1: after any sequence of transactions from the ledger without referrals,
\* no account is its own ancestor through sfReferee links (the referral
\* relation has no cycle, 2-cycles included).
C1_NoReferralCycle ==
    LET RECURSIVE Up(_, _)
        Up(a, n) == IF n = 0 \/ a = ACCOUNT_ZERO THEN a ELSE Up(referee[a], n - 1)
    IN  \A a \in Accounts : \A n \in 1..NumAccounts : Up(a, n) # a

\* C2: sfReferee is write-once: no transaction of any kind changes or clears
\* a non-zero sfReferee.
C2_RefereeWriteOnce ==
    [][\A a \in Accounts : referee[a] # ACCOUNT_ZERO => referee'[a] = referee[a]]_vars

\* An account has a referee and a later AddReferee for it has been refused.
C2_Witness ==
    /\ txnType = "ttADDREFEREE"
    /\ result = "tefREFEREE_EXIST"
    /\ \E a \in Accounts : referee[a] # ACCOUNT_ZERO /\ references[referee[a]] # << >>

\* C3, as stated: once sfReferee of an account is set, every AddReferee with
\* that account as the referred one returns tefREFEREE_EXIST, whatever the
\* referrer (zero, the account itself, a missing account, the same referrer
\* or another existing one).
C3_AlwaysRefereeExist ==
    [][\A refereeID \in Addresses, referenceID \in Accounts :
         (referee[referenceID] # ACCOUNT_ZERO /\ AddReferee(refereeID, referenceID))
             => result' = "tefREFEREE_EXIST"]_vars

\* C3, amended: once sfReferee of an account is set, every AddReferee with
\* that account as the referred one fails and leaves the ledger unchanged;
\* it returns tefREFEREE_EXIST when the referrer is another existing account,
\* but temDST_NEEDED for the zero referrer, temREDUNDANT for the account
\* itself and tecNO_DST for a referrer without an account root.
C3_RelinkFails ==
    [][\A refereeID \in Addresses, referenceID \in Accounts :
         (referee[referenceID] # ACCOUNT_ZERO /\ AddReferee(refereeID, referenceID))
             => /\ result' = (IF refereeID = ACCOUNT_ZERO THEN "temDST_NEEDED"
                              ELSE IF refereeID = referenceID THEN "temREDUNDANT"
                              ELSE IF refereeID \notin Accounts THEN "tecNO_DST"
                              ELSE "tefREFEREE_EXIST")
                /\ UNCHANGED ledgerVars]_vars

\* Every account has a referee and an AddReferee has just been refused with
\* tefREFEREE_EXIST.
C3_Witness ==
    /\ txnType = "ttADDREFEREE"
    /\ result = "tefREFEREE_EXIST"
    /\ \A a \in Accounts : referee[a] # ACCOUNT_ZERO

\* C6: an AddReferee that fails leaves the whole ledger unchanged; one that
\* succeeds sets sfReferee of exactly one account, from zero to the referrer,
\* appends that account to the referrer's sfReferences, and changes nothing
\* else: no other account, no balance, none of the amendment, fee and
\* dividend entries.
C6_AddRefereeFrame ==
    [][txnType' = "ttADDREFEREE" =>
         IF result' = "tesSUCCESS"
         THEN /\ \E referenceID \in Accounts :
                   /\ referee[referenceID] = ACCOUNT_ZERO
                   /\ referee'[referenceID] \in Accounts
                   /\ referee' = [referee EXCEPT ![referenceID] = referee'[referenceID]]
                   /\ references' = [references EXCEPT ![referee'[referenceID]] = Append(@, referenceID)]
              /\ UNCHANGED << balance, balanceVBC, amendmentObject, feeObject, dividendObject >>
         ELSE UNCHANGED ledgerVars]_vars

\* An AddReferee has just succeeded on a ledger that holds balances changed by
\* a dividend and the amendment, fee and dividend entries.
C6_Witness ==
    /\ txnType = "ttADDREFEREE"
    /\ result = "tesSUCCESS"
    /\ amendmentObject.exists /\ feeObject.exists /\ dividendObject.exists
    /\ \E a \in Accounts : balance[a] # U64(200000000)

\* C7: doApply returns the failure of the first violated precondition, in the
\* order zero referrer, self-referral, referrer missing, referred missing,
\* referee set, reference listed; AddReferee of an account to itself returns
\* temDST_NEEDED or temREDUNDANT in every ledger state and changes nothing.
C7_PreconditionOrder ==
    [][\A refereeID \in Addresses, referenceID \in Addresses :
         AddReferee(refereeID, referenceID) =>
             LET zero     == refereeID = ACCOUNT_ZERO
                 self     == refereeID = referenceID
                 noDst    == refereeID \notin Accounts
                 noSrc    == referenceID \notin Accounts
                 linked   == referee[referenceID] # ACCOUNT_ZERO
                 listed   == Contains(references[refereeID], referenceID)
             IN  /\ zero => result' = "temDST_NEEDED"
                 /\ (~zero /\ self) => result' = "temREDUNDANT"
                 /\ (~zero /\ ~self /\ noDst) => result' = "tecNO_DST"
                 /\ (~zero /\ ~self /\ ~noDst /\ noSrc) => result' = "terNO_ACCOUNT"
                 /\ (~zero /\ ~self /\ ~noDst /\ ~noSrc /\ linked) => result' = "tefREFEREE_EXIST"
                 /\ (~zero /\ ~self /\ ~noDst /\ ~noSrc /\ ~linked /\ listed) => result' = "tefREFERENCE_EXIST"
                 /\ (~zero /\ ~self /\ ~noDst /\ ~noSrc /\ ~linked /\ ~listed) => result' = "tesSUCCESS"
                 /\ self => (result' \in { "temDST_NEEDED", "temREDUNDANT" } /\ UNCHANGED ledgerVars)]_vars

\* A self-referral has just been refused on a ledger in which some account
\* already has a referee.
C7_Witness ==
    /\ txnType = "ttADDREFEREE"
    /\ result = "temREDUNDANT"
    /\ \E a \in Accounts : referee[a] # ACCOUNT_ZERO

\* C15: no AddReferee ever returns tefREFERENCE_EXIST: an account listed in
\* some sfReferences has a non-zero sfReferee, so the test of sfReferee
\* refuses the transaction first.
C15_ReferenceExistUnreachable ==
    /\ result # "tefREFERENCE_EXIST"
    /\ \A r, c \in Accounts : Contains(references[r], c) => referee[c] # ACCOUNT_ZERO

\* An AddReferee has been refused with tefREFEREE_EXIST on a ledger in which
\* one account refers two others.
C15_Witness ==
    /\ txnType = "ttADDREFEREE"
    /\ result = "tefREFEREE_EXIST"
    /\ \E r \in Accounts : Len(references[r]) = 2

(***************************************************************************)
(* Properties of Change::applyAmendment.                                   *)
(***************************************************************************)
\* C8: an amendment transaction for an identifier already in sfAmendments
\* returns tefALREADY, leaves sfAmendments as it is and calls neither enable
\* nor setAmendmentBlocked; one for an identifier not in it succeeds and puts
\* it there, so the same identifier twice in a row gives tesSUCCESS then
\* tefALREADY.
C8_AmendmentIdempotent ==
    [][\A amendment \in AmendmentIds :
         ApplyAmendment(amendment) =>
             IF Contains(CurrentAmendments, amendment)
             THEN /\ result' = "tefALREADY"
                  /\ UNCHANGED << amendmentObject, enableCalls, blockedCalls >>
             ELSE /\ result' = "tesSUCCESS"
                  /\ Contains(CurrentAmendments', amendment)
                  /\ Len(CurrentAmendments') = Len(CurrentAmendments) + 1]_vars

\* An amendment transaction has just returned tefALREADY.
C8_Witness ==
    /\ txnType = "ttAMENDMENT"
    /\ result = "tefALREADY"
    /\ amendmentObject.exists /\ amendmentObject.Amendments # << >>

\* C9: no transaction of any kind removes an identifier from sfAmendments.
C9_AmendmentsMonotonic ==
    [][\A amendment \in AmendmentIds :
         Contains(CurrentAmendments, amendment) => Contains(CurrentAmendments', amendment)]_vars

\* Every amendment is enabled, and fee, dividend and AddReferee transactions
\* have been applied since.
C9_Witness ==
    /\ Len(CurrentAmendments) = NumAmendments
    /\ feeObject.exists /\ dividendObject.exists
    /\ \E a \in Accounts : referee[a] # ACCOUNT_ZERO

(***************************************************************************)
(* Properties of Change::applyDividend.                                    *)
(***************************************************************************)
\* C4: the total of sfBalanceVBC credits of a dividend transaction (the sum
\* of divVBCbyRank + divVBCbyPower over the accounts that pass the dust
\* threshold, stored as sfDividendCoinsVBC) is at most the pool
\* sfDividendCoinsVBC of the transaction.  Stated for the runs in which
\* nothing overflows and totalPower is not zero.
C4_DistributionConserved ==
    (lastDividend.applied /\ ~lastDividend.overflow /\ lastDividend.totalPower # Zero64)
        => BigCmp(dividendObject.DividendCoinsVBC, lastDividend.dividendCoinsVBC) <= 0

\* C5: a dividend transaction in which a product or a sum exceeds 64 bits is
\* rejected: no run that returns tesSUCCESS and writes balances and the
\* dividend entry has overflowed.  Stated for the runs in which totalPower
\* is not zero.
C5_OverflowRejected ==
    (lastDividend.applied /\ lastDividend.totalPower # Zero64) => ~lastDividend.overflow

\* C10: in the rank table of a dividend transaction a smaller sfBalanceVBC
\* never has a larger rank, equal balances have equal ranks, and the ranks
\* assigned are exactly 1..k, k the number of distinct balances.
C10_RankMonotone ==
    lastDividend.applied =>
        LET bal  == lastDividend.prevBalanceVBC
            rank == lastDividend.rank
            k    == Cardinality({ bal[a] : a \in Accounts })
        IN  /\ \A x, y \in Accounts : Less64(bal[x], bal[y]) => rank[x] <= rank[y]
            /\ \A x, y \in Accounts : bal[x] = bal[y] => rank[x] = rank[y]
            /\ { rank[a] : a \in Accounts } = 1..k

\* A dividend has been applied to accounts of which two hold the same balance
\* and a third a larger one, one of them referred by another.
C10_Witness ==
    /\ lastDividend.applied
    /\ \E x, y, z \in Accounts :
         /\ x # y
         /\ lastDividend.prevBalanceVBC[x] = lastDividend.prevBalanceVBC[y]
         /\ Less64(lastDividend.prevBalanceVBC[y], lastDividend.prevBalanceVBC[z])
         /\ lastDividend.rank[x] = 1 /\ lastDividend.rank[z] = 2
    /\ \E a \in Accounts : referee[a] # ACCOUNT_ZERO

\* C11: a dividend transaction that returns tesSUCCESS leaves in the
\* ltDIVIDEND entry its own sfDividendLedger and, as sfDividendCoinsVBC and
\* sfDividendCoins, the sums over the accounts of the change of sfBalanceVBC
\* and of sfBalance it made (in uint64_t arithmetic), whatever the entry held
\* before.
C11_DividendRecordTotals ==
    [][\A dividendLedger \in 1..MaxDividendLedger, dividendCoinsVBC \in PoolInputs :
         (txnType' = "ttDIVIDEND" /\ result' = "tesSUCCESS" /\ ApplyDividend(dividendLedger, dividendCoinsVBC)) =>
             LET RECURSIVE Total(_, _, _)
                 Total(before, after, n) ==
                     IF n = 0 THEN Zero64
                     ELSE Add64(Total(before, after, n - 1), Sub64(after[n], before[n]))
             IN  /\ dividendObject'.exists
                 /\ dividendObject'.DividendLedger = dividendLedger
                 /\ dividendObject'.DividendCoinsVBC = Total(balanceVBC, balanceVBC', NumAccounts)
                 /\ dividendObject'.DividendCoins = Total(balance, balance', NumAccounts)]_vars

\* A dividend has been applied over the entry of an earlier one of a later
\* ledger, with credits to both balances, and its totals differ from the
\* earlier ones.
C11_Witness ==
    /\ txnType = "ttDIVIDEND" /\ result = "tesSUCCESS"
    /\ dividendObject.DividendLedger = 1
    /\ dividendObject.DividendLedger < PriorDividendObject.DividendLedger
    /\ lastDividend.prevBalanceVBC # balanceVBC
    /\ lastDividend.prevBalance # balance
    /\ dividendObject.DividendCoinsVBC # PriorDividendObject.DividendCoinsVBC
    /\ dividendObject.DividendCoins # PriorDividendObject.DividendCoins

(***************************************************************************)
(* Properties of Change::applyFee.                                         *)
(***************************************************************************)
\* C12: after a fee transaction the ltFEE_SETTINGS entry exists and its four
\* fields are the four values of the transaction, whether the entry was
\* absent or held other values before; so after any sequence of them the
\* entry holds the values of the last.
C12_FeeOverwrite ==
    [][\A txn \in FeeInputs :
         (txnType' = "ttFEE" /\ ApplyFee(txn)) =>
             /\ result' = "tesSUCCESS"
             /\ feeObject'.exists
             /\ feeObject'.BaseFee = txn.BaseFee
             /\ feeObject'.ReferenceFeeUnits = txn.ReferenceFeeUnits
             /\ feeObject'.ReserveBase = txn.ReserveBase
             /\ feeObject'.ReserveIncrement = txn.ReserveIncrement]_vars

\* A fee transaction has just been applied and the entry holds the larger
\* reserve.
C12_Witness ==
    /\ txnType = "ttFEE" /\ result = "tesSUCCESS"
    /\ feeObject.exists
    /\ feeObject.ReserveBase = 50000000 /\ feeObject.ReserveIncrement = 12500000

(***************************************************************************)
(* Further properties of Change::applyDividend.                            *)
(***************************************************************************)
\* C13: the outcome of a dividend transaction does not depend on the order
\* in which std::for_each meets the accounts: with the ranks, metrics,
\* totalPart and totalPower of the run, crediting the accounts in any order
\* from the ledger before the transaction gives the balances and the two
\* totals the transaction left.
C13_OrderIndependent ==
    [][(txnType' = "ttDIVIDEND" /\ result' = "tesSUCCESS") =>
         \E byZero \in (IF lastDividend'.totalPower = Zero64 THEN DivideByZero ELSE { Zero64 }) :
             LET d == lastDividend'
                 RECURSIVE ReplayGives(_, _, _)
                 ReplayGives(order, i, acc) ==
                     IF i > Len(order)
                     THEN /\ acc.balance = balance'
                          /\ acc.balanceVBC = balanceVBC'
                          /\ acc.actualTotalDividend = dividendObject'.DividendCoins
                          /\ acc.actualTotalDividendVBC = dividendObject'.DividendCoinsVBC
                     ELSE \A share \in { DividendShare(d.dividendCoinsVBC, d.rank[order[i]], d.metric[order[i]],
                                                       d.totalPart, d.totalPower, byZero) } :
                              \A credited \in { CreditAccount(acc, order[i], share.divVBC) } :
                                  ReplayGives(order, i + 1, credited)
             IN  \A order \in Orders :
                     \A acc \in { [balance |-> balance, balanceVBC |-> balanceVBC,
                                   actualTotalDividend |-> Zero64, actualTotalDividendVBC |-> Zero64,
                                   overflow |-> FALSE] } :
                         ReplayGives(order, 1, acc)]_vars

\* A dividend has been applied in which one account's share was dropped as
\* dust and two others were credited different amounts.
C13_Witness ==
    /\ txnType = "ttDIVIDEND" /\ result = "tesSUCCESS"
    /\ lastDividend.totalPower # Zero64
    /\ \E x, y, z \in Accounts :
         /\ Less64(lastDividend.divVBC[x], U64(SYSTEM_CURRENCY_PARTS))
         /\ Less64(U64(SYSTEM_CURRENCY_PARTS), lastDividend.divVBC[y])
         /\ Less64(lastDividend.divVBC[y], lastDividend.divVBC[z])
         /\ balanceVBC[x] = lastDividend.prevBalanceVBC[x]
         /\ balanceVBC[y] # lastDividend.prevBalanceVBC[y]

\* C14: in every ledger state, forest or not, the getPower calls applyDividend
\* makes from the roots come to an end, and the loop over sfReferences is
\* entered at most once for each account.
C14_GetPowerTerminates ==
    LET p == PowerTable
    IN  /\ ~p.diverged
        /\ \A i, j \in 1..Len(p.loops) : p.loops[i] = p.loops[j] => i = j
        /\ result # "SIGSEGV"

\* A dividend transaction has been applied to a ledger whose referral
\* relation has a cycle.
C14_Witness ==
    /\ txnType = "ttDIVIDEND"
    /\ \E a, b \in Accounts : a # b /\ referee[a] = b /\ referee[b] = a

\* C16: after a dividend transaction, an account whose divVBC (divVBCbyRank +
\* divVBCbyPower) is below SYSTEM_CURRENCY_PARTS has its sfBalanceVBC
\* unchanged and adds nothing to sfDividendCoinsVBC; an account whose divVBC
\* is at or above it has its sfBalanceVBC increased by divVBC, and
\* sfDividendCoinsVBC is the sum of these (in uint64_t arithmetic).
C16_DustThreshold ==
    lastDividend.applied =>
        LET d == lastDividend
            Dust(a) == Less64(d.divVBC[a], U64(SYSTEM_CURRENCY_PARTS))
            RECURSIVE Paid(_)
            Paid(n) == IF n = 0 THEN Zero64
                       ELSE IF Dust(n) THEN Paid(n - 1)
                       ELSE Add64(Paid(n - 1), d.divVBC[n])
        IN  /\ \A a \in Accounts :
                 balanceVBC[a] = (IF Dust(a) THEN d.prevBalanceVBC[a] ELSE Add64(d.prevBalanceVBC[a], d.divVBC[a]))
            /\ dividendObject.DividendCoinsVBC = Paid(NumAccounts)

\* A dividend has been applied, without overflow or division by zero, in
\* which one account's divVBC was below the threshold and another's above it.
C16_Witness ==
    /\ lastDividend.applied /\ ~lastDividend.overflow /\ lastDividend.totalPower # Zero64
    /\ \E x, z \in Accounts :
         /\ Less64(lastDividend.divVBC[x], U64(SYSTEM_CURRENCY_PARTS))
         /\ lastDividend.divVBC[x] # Zero64
         /\ balanceVBC[x] = lastDividend.prevBalanceVBC[x]
         /\ Less64(U64(SYSTEM_CURRENCY_PARTS), lastDividend.divVBC[z])
         /\ balanceVBC[z] # lastDividend.prevBalanceVBC[z]

\* C17: after a dividend transaction every account, whether or not its
\* divVBC passed the threshold, has its sfBalance increased by its
\* sfBalanceVBC of before the transaction times VRP_INCREASE_RATE, and
\* sfDividendCoins is the sum of these increases (in uint64_t arithmetic).
C17_PrimaryPayout ==
    lastDividend.applied =>
        LET d == lastDividend
            Div(a) == Mul64(d.prevBalanceVBC[a], U64(VRP_INCREASE_RATE))
            RECURSIVE Primary(_)
            Primary(n) == IF n = 0 THEN Zero64 ELSE Add64(Primary(n - 1), Div(n))
        IN  /\ \A a \in Accounts : balance[a] = Add64(d.prevBalance[a], Div(a))
            /\ dividendObject.DividendCoins = Primary(NumAccounts)

\* A dividend has been applied in which an account holding a non-zero
\* sfBalanceVBC had its divVBC dropped as dust, and another was credited.
C17_Witness ==
    /\ lastDividend.applied
    /\ \E x, z \in Accounts :
         /\ lastDividend.prevBalanceVBC[x] # Zero64
         /\ balanceVBC[x] = lastDividend.prevBalanceVBC[x]
         /\ balance[x] # lastDividend.prevBalance[x]
         /\ lastDividend.prevBalanceVBC[z] # Zero64
         /\ balanceVBC[z] # lastDividend.prevBalanceVBC[z]
         /\ balance[z] # lastDividend.prevBalance[z]

\* C18: from a ledger without referral links, after any AddReferee
\* transactions, an account is in the sfReferences of R exactly when its
\* sfReferee is R, no sfReferences holds an account twice, and no account is
\* in the sfReferences of two accounts.
C18_RefereeReferencesConsistent ==
    /\ \A r, c \in Accounts : Contains(references[r], c) <=> referee[c] = r
    /\ \A r \in Accounts : \A i, j \in 1..Len(references[r]) : references[r][i] = references[r][j] => i = j
    /\ \A r, s, c \in Accounts : (Contains(references[r], c) /\ Contains(references[s], c)) => r = s

\* A successful AddReferee has left one account with two references and
\* another account with one.
C18_Witness ==
    /\ txnType = "ttADDREFEREE"
    /\ result = "tesSUCCESS"
    /\ \E r, s \in Accounts : r # s /\ Len(references[r]) = 2 /\ Len(references[s]) = 1

\* C19: whenever a dividend transaction is applied, the two divisors of
\* Change.cpp:301-302 are non-zero: totalPart (the sum of the ranks) and
\* totalPower (the sum of power.second over the accounts), so that no run
\* divides by zero.
C19_NoDivisionByZero ==
    txnType = "ttDIVIDEND" =>
        /\ result # "SIGFPE"
        /\ lastDividend.applied => (lastDividend.totalPart > 0 /\ lastDividend.totalPower # Zero64)

\* C20: in every reachable state, for every account that getPower reaches
\* from a root, power.first is the sum of sfBalanceVBC over the accounts
\* below it in the referral relation and power.second is the largest
\* sfBalanceVBC among them (both 0 when there is none), so power.first is
\* not below power.second and power.first - power.second does not wrap.
C20_PowerPairMeaning ==
    LET p == PowerTable
        RECURSIVE Ancestors(_, _)
        Ancestors(c, n) ==
            IF n = 0 \/ referee[c] = ACCOUNT_ZERO THEN { }
            ELSE { referee[c] } \cup Ancestors(referee[c], n - 1)
        Descendant(c, a) == a \in Ancestors(c, NumAccounts)
        RECURSIVE DescendantSum(_, _)
        DescendantSum(a, n) ==
            IF n = 0 THEN Zero64
            ELSE IF Descendant(n, a) THEN Add64(DescendantSum(a, n - 1), balanceVBC[n])
            ELSE DescendantSum(a, n - 1)
        RECURSIVE DescendantMax(_, _)
        DescendantMax(a, n) ==
            IF n = 0 THEN Zero64
            ELSE IF Descendant(n, a) THEN Max64Of(DescendantMax(a, n - 1), balanceVBC[n])
            ELSE DescendantMax(a, n - 1)
    IN  \A a \in DOMAIN p.tab :
            /\ p.tab[a][1] = DescendantSum(a, NumAccounts)
            /\ p.tab[a][2] = DescendantMax(a, NumAccounts)
            /\ ~Less64(p.tab[a][1], p.tab[a][2])
            /\ Add64(Sub64(p.tab[a][1], p.tab[a][2]), p.tab[a][2]) = p.tab[a][1]

\* A dividend has been applied on a ledger in which a root had a child and a
\* grandchild holding different non-zero sfBalanceVBC, so that its
\* power.first exceeded its non-zero power.second.
C20_Witness ==
    /\ txnType = "ttDIVIDEND"
    /\ lastDividend.applied
    /\ \E a, b, c \in Accounts :
         /\ referee[a] = ACCOUNT_ZERO /\ referee[b] = a /\ referee[c] = b
         /\ lastDividend.prevBalanceVBC[b] # Zero64
         /\ Less64(lastDividend.prevBalanceVBC[b], lastDividend.prevBalanceVBC[c])
         /\ lastDividend.power[a][2] = lastDividend.prevBalanceVBC[c]
         /\ lastDividend.power[a][1] = Add64(lastDividend.prevBalanceVBC[b], lastDividend.prevBalanceVBC[c])

====
